---- MODULE Spec2Model ----
(***************************************************************************)
(* TicketManager of src/main.py: the keyword vocabulary, the synthetic     *)
(* corpus, the bag-of-keywords vectorizer, the two fitted decision trees   *)
(* with their label encoders, and the ticket list with its CSV store.      *)
(*                                                                         *)
(* Text is a sequence of characters, one string per character, so that     *)
(* lower(), strip(), format(), sorted() and the substring test are         *)
(* computed character by character.  An accented letter is written as the  *)
(* letter followed by ' (a' e' i' o' u') and n with tilde as n~; CodePoint *)
(* gives each its code point.  Positions are 1-based (a Python index i is  *)
(* i+1 here).                                                              *)
(***************************************************************************)
EXTENDS Integers, Sequences, FiniteSets, TLC

VARIABLES
  category_keywords, \* self.category_keywords, as <<category, <<keyword, ...>>>> pairs
  features,          \* self.features
  descriptions,      \* the local list `descriptions` of _prepare_dataset
  X,                 \* self.X
  y_cat,             \* self.y_cat
  y_prio,            \* self.y_prio
  le_cat,            \* self.le_cat  (classes_ of the fitted LabelEncoder)
  clf_cat,           \* self.clf_cat (the fitted DecisionTreeClassifier)
  le_prio,           \* self.le_prio
  clf_prio,          \* self.clf_prio
  tickets,           \* self.tickets
  store,             \* the CSV file named by self.csv_file
  op,                \* the operation that ran last
  arg,               \* its arguments
  vec,               \* the feature vector it built (the local `vec`)
  ret                \* what it returned or raised

vars ==
  << category_keywords, features, descriptions, X, y_cat, y_prio, le_cat, clf_cat,
     le_prio, clf_prio, tickets, store, op, arg, vec, ret >>

model_vars ==
  << category_keywords, features, descriptions, X, y_cat, y_prio, le_cat, clf_cat,
     le_prio, clf_prio >>

\* ------------------------------------------------------------------ bounds

\* Cap on len(self.tickets): submissions are disabled once it is reached.
MaxTickets ==
  2

\* ------------------------------------------------------------------- text

\* ord(c) of every character the model uses.
CodePoint ==
  ("\t" :> 9) @@ ("\n" :> 10) @@ (" " :> 32) @@ ("-" :> 45) @@ ("." :> 46) @@ ("0" :> 48) @@ ("1" :> 49) @@ ("2" :> 50) @@ ("3" :> 51) @@ ("4" :> 52) @@ ("5" :> 53) @@ ("6" :> 54) @@ ("7" :> 55) @@ ("8" :> 56) @@ ("9" :> 57) @@ (":" :> 58) @@ ("A" :> 65) @@ ("B" :> 66) @@ ("C" :> 67) @@ ("D" :> 68) @@ ("E" :> 69) @@ ("F" :> 70) @@ ("G" :> 71) @@ ("H" :> 72) @@ ("I" :> 73) @@ ("J" :> 74) @@ ("K" :> 75) @@ ("L" :> 76) @@ ("M" :> 77) @@ ("N" :> 78) @@ ("O" :> 79) @@ ("P" :> 80) @@ ("Q" :> 81) @@ ("R" :> 82) @@ ("S" :> 83) @@ ("T" :> 84) @@ ("U" :> 85) @@ ("V" :> 86) @@ ("W" :> 87) @@ ("X" :> 88) @@ ("Y" :> 89) @@ ("Z" :> 90) @@ ("a" :> 97) @@ ("b" :> 98) @@ ("c" :> 99) @@ ("d" :> 100) @@ ("e" :> 101) @@ ("f" :> 102) @@ ("g" :> 103) @@ ("h" :> 104) @@ ("i" :> 105) @@ ("j" :> 106) @@ ("k" :> 107) @@ ("l" :> 108) @@ ("m" :> 109) @@ ("n" :> 110) @@ ("o" :> 111) @@ ("p" :> 112) @@ ("q" :> 113) @@ ("r" :> 114) @@ ("s" :> 115) @@ ("t" :> 116) @@ ("u" :> 117) @@ ("v" :> 118) @@ ("w" :> 119) @@ ("x" :> 120) @@ ("y" :> 121) @@ ("z" :> 122) @@ ("{" :> 123) @@ ("}" :> 125) @@ ("A'" :> 193) @@ ("E'" :> 201) @@ ("I'" :> 205) @@ ("N~" :> 209) @@ ("O'" :> 211) @@ ("U'" :> 218) @@ ("a'" :> 225) @@ ("e'" :> 233) @@ ("i'" :> 237) @@ ("n~" :> 241) @@ ("o'" :> 243) @@ ("u'" :> 250)

\* str.lower() on one character: the upper-case letters and their images.
LowerOf ==
  ("A" :> "a") @@ ("B" :> "b") @@ ("C" :> "c") @@ ("D" :> "d") @@ ("E" :> "e") @@ ("F" :> "f") @@ ("G" :> "g") @@ ("H" :> "h") @@ ("I" :> "i") @@ ("J" :> "j") @@ ("K" :> "k") @@ ("L" :> "l") @@ ("M" :> "m") @@ ("N" :> "n") @@ ("O" :> "o") @@ ("P" :> "p") @@ ("Q" :> "q") @@ ("R" :> "r") @@ ("S" :> "s") @@ ("T" :> "t") @@ ("U" :> "u") @@ ("V" :> "v") @@ ("W" :> "w") @@ ("X" :> "x") @@ ("Y" :> "y") @@ ("Z" :> "z") @@ ("A'" :> "a'") @@ ("E'" :> "e'") @@ ("I'" :> "i'") @@ ("O'" :> "o'") @@ ("U'" :> "u'") @@ ("N~" :> "n~")

lower(s) ==
  [i \in 1..Len(s) |-> IF s[i] \in DOMAIN LowerOf THEN LowerOf[s[i]] ELSE s[i]]

\* The characters str.strip() removes (those of the model's alphabet).
Whitespace ==
  {" ", "\t", "\n"}

RECURSIVE lstrip(_)
lstrip(s) ==
  IF s # <<>> /\ Head(s) \in Whitespace THEN lstrip(Tail(s)) ELSE s

RECURSIVE rstrip(_)
rstrip(s) ==
  IF s # <<>> /\ s[Len(s)] \in Whitespace THEN rstrip(SubSeq(s, 1, Len(s) - 1)) ELSE s

strip(s) ==
  rstrip(lstrip(s))

\* s.startswith(sub) where `sub in s` was meant.
Contains_startswith(sub, s) ==
  Len(sub) <= Len(s) /\ SubSeq(s, 1, Len(sub)) = sub

\* `sub in s`: sub occurs in s as a contiguous run of characters.
Contains(sub, s) ==
  \E i \in 0..(Len(s) - Len(sub)) : \A j \in 1..Len(sub) : s[i + j] = sub[j]

\* a < b on str: by code point at the first difference, a proper prefix first.
StrLess(a, b) ==
  \/ Len(a) < Len(b) /\ SubSeq(b, 1, Len(a)) = a
  \/ \E i \in 1..(IF Len(a) < Len(b) THEN Len(a) ELSE Len(b)) :
        /\ SubSeq(a, 1, i - 1) = SubSeq(b, 1, i - 1)
        /\ CodePoint[a[i]] < CodePoint[b[i]]

RECURSIVE SetToSeq(_)
SetToSeq(S) ==
  IF S = {} THEN <<>>
  ELSE LET x == CHOOSE x \in S : TRUE IN <<x>> \o SetToSeq(S \ {x})

\* sorted(S) for a set of str.
sorted(S) ==
  SortSeq(SetToSeq(S), StrLess)

Range(s) ==
  {s[i] : i \in 1..Len(s)}

\* tmpl.format(kw=kw): the first "{kw}" of tmpl replaced by kw.
Placeholder ==
  <<"{", "k", "w", "}">>

format(tmpl, kw) ==
  LET i == CHOOSE i \in 1..Len(tmpl) :
             /\ SubSeq(tmpl, i, i + 3) = Placeholder
             /\ \A j \in 1..(i - 1) : SubSeq(tmpl, j, j + 3) # Placeholder
  IN  SubSeq(tmpl, 1, i - 1) \o kw \o SubSeq(tmpl, i + 4, Len(tmpl))

\* ------------------------------------------------------------- vocabulary

\* 'agua': {'fuga', 'inundacio'n', 'desborde', 'filtracio'n', 'derrame', 'humedad'}
kw_agua ==
  << <<"f", "u", "g", "a">>,
     <<"i", "n", "u", "n", "d", "a", "c", "i", "o'", "n">>,
     <<"d", "e", "s", "b", "o", "r", "d", "e">>,
     <<"f", "i", "l", "t", "r", "a", "c", "i", "o'", "n">>,
     <<"d", "e", "r", "r", "a", "m", "e">>,
     <<"h", "u", "m", "e", "d", "a", "d">> >>
\* 'electricidad': {'apago'n', 'corte', 'cable', 'sobrecarga', 'falla ele'ctrica', 'cortocircuito'}
kw_electricidad ==
  << <<"a", "p", "a", "g", "o'", "n">>,
     <<"c", "o", "r", "t", "e">>,
     <<"c", "a", "b", "l", "e">>,
     <<"s", "o", "b", "r", "e", "c", "a", "r", "g", "a">>,
     <<"f", "a", "l", "l", "a", " ", "e", "l", "e'", "c", "t", "r", "i", "c", "a">>,
     <<"c", "o", "r", "t", "o", "c", "i", "r", "c", "u", "i", "t", "o">> >>
\* 'seguridad': {'robo', 'asalto', 'vandalismo', 'intrusio'n', 'allanamiento', 'violacio'n'}
kw_seguridad ==
  << <<"r", "o", "b", "o">>,
     <<"a", "s", "a", "l", "t", "o">>,
     <<"v", "a", "n", "d", "a", "l", "i", "s", "m", "o">>,
     <<"i", "n", "t", "r", "u", "s", "i", "o'", "n">>,
     <<"a", "l", "l", "a", "n", "a", "m", "i", "e", "n", "t", "o">>,
     <<"v", "i", "o", "l", "a", "c", "i", "o'", "n">> >>
\* 'ruido': {'ruido', 'fiesta', 'mu'sica', 'estruendo', 'bulla', 'clamor'}
kw_ruido ==
  << <<"r", "u", "i", "d", "o">>,
     <<"f", "i", "e", "s", "t", "a">>,
     <<"m", "u'", "s", "i", "c", "a">>,
     <<"e", "s", "t", "r", "u", "e", "n", "d", "o">>,
     <<"b", "u", "l", "l", "a">>,
     <<"c", "l", "a", "m", "o", "r">> >>
\* 'limpieza': {'basura', 'desorden', 'limpieza', 'residuos', 'suciedad', 'desecho'}
kw_limpieza ==
  << <<"b", "a", "s", "u", "r", "a">>,
     <<"d", "e", "s", "o", "r", "d", "e", "n">>,
     <<"l", "i", "m", "p", "i", "e", "z", "a">>,
     <<"r", "e", "s", "i", "d", "u", "o", "s">>,
     <<"s", "u", "c", "i", "e", "d", "a", "d">>,
     <<"d", "e", "s", "e", "c", "h", "o">> >>
\* 'fuego': {'incendio', 'chispa', 'humo', 'llamas', 'combustio'n', 'alarma incendio'}
kw_fuego ==
  << <<"i", "n", "c", "e", "n", "d", "i", "o">>,
     <<"c", "h", "i", "s", "p", "a">>,
     <<"h", "u", "m", "o">>,
     <<"l", "l", "a", "m", "a", "s">>,
     <<"c", "o", "m", "b", "u", "s", "t", "i", "o'", "n">>,
     <<"a", "l", "a", "r", "m", "a", " ", "i", "n", "c", "e", "n", "d", "i", "o">> >>
\* 'animales': {'perro', 'gato', 'roedor', 'avispas', 'abejas', 'mapache', 'jabali'', 'serpiente'}
kw_animales ==
  << <<"p", "e", "r", "r", "o">>,
     <<"g", "a", "t", "o">>,
     <<"r", "o", "e", "d", "o", "r">>,
     <<"a", "v", "i", "s", "p", "a", "s">>,
     <<"a", "b", "e", "j", "a", "s">>,
     <<"m", "a", "p", "a", "c", "h", "e">>,
     <<"j", "a", "b", "a", "l", "i'">>,
     <<"s", "e", "r", "p", "i", "e", "n", "t", "e">> >>
\* 'conflictos': {'discusio'n', 'pelea', 'rin~a', 'agresio'n', 'confrontacio'n', 'enfrentamiento'}
kw_conflictos ==
  << <<"d", "i", "s", "c", "u", "s", "i", "o'", "n">>,
     <<"p", "e", "l", "e", "a">>,
     <<"r", "i", "n~", "a">>,
     <<"a", "g", "r", "e", "s", "i", "o'", "n">>,
     <<"c", "o", "n", "f", "r", "o", "n", "t", "a", "c", "i", "o'", "n">>,
     <<"e", "n", "f", "r", "e", "n", "t", "a", "m", "i", "e", "n", "t", "o">> >>
\* self.category_keywords as written in __init__: the dict in insertion order, each
\* keyword set listed in the order of its literal (a set's iteration order is not
\* specified; it only decides the order of the corpus rows).
category_keywords_literal ==
  << <<<<"a", "g", "u", "a">>, kw_agua>>,
     <<<<"e", "l", "e", "c", "t", "r", "i", "c", "i", "d", "a", "d">>, kw_electricidad>>,
     <<<<"s", "e", "g", "u", "r", "i", "d", "a", "d">>, kw_seguridad>>,
     <<<<"r", "u", "i", "d", "o">>, kw_ruido>>,
     <<<<"l", "i", "m", "p", "i", "e", "z", "a">>, kw_limpieza>>,
     <<<<"f", "u", "e", "g", "o">>, kw_fuego>>,
     <<<<"a", "n", "i", "m", "a", "l", "e", "s">>, kw_animales>>,
     <<<<"c", "o", "n", "f", "l", "i", "c", "t", "o", "s">>, kw_conflictos>> >>


\* self.priority_map
priority_map ==
  (<<"s", "e", "g", "u", "r", "i", "d", "a", "d">> :> <<"A", "l", "t", "a">>)
  @@ (<<"e", "l", "e", "c", "t", "r", "i", "c", "i", "d", "a", "d">> :> <<"A", "l", "t", "a">>)
  @@ (<<"f", "u", "e", "g", "o">> :> <<"A", "l", "t", "a">>)
  @@ (<<"c", "o", "n", "f", "l", "i", "c", "t", "o", "s">> :> <<"A", "l", "t", "a">>)
  @@ (<<"a", "g", "u", "a">> :> <<"M", "e", "d", "i", "a">>)
  @@ (<<"a", "n", "i", "m", "a", "l", "e", "s">> :> <<"M", "e", "d", "i", "a">>)
  @@ (<<"r", "u", "i", "d", "o">> :> <<"B", "a", "j", "a">>)
  @@ (<<"l", "i", "m", "p", "i", "e", "z", "a">> :> <<"B", "a", "j", "a">>)
  @@ (<<"o", "t", "r", "o">> :> <<"M", "e", "d", "i", "a">>)


\* the local list `templates` of _prepare_dataset
templates ==
  << <<"S", "e", " ", "d", "e", "t", "e", "c", "t", "a", " ", "{", "k", "w", "}", " ", "e", "n", " ", "l", "a", " ", "i", "n", "s", "t", "a", "l", "a", "c", "i", "o'", "n", ".">>,
     <<"H", "a", "y", " ", "u", "n", " ", "r", "e", "p", "o", "r", "t", "e", " ", "d", "e", " ", "{", "k", "w", "}", " ", "h", "a", "c", "e", " ", "m", "i", "n", "u", "t", "o", "s", ".">>,
     <<"S", "e", " ", "p", "e", "r", "c", "i", "b", "e", " ", "{", "k", "w", "}", " ", "c", "e", "r", "c", "a", " ", "d", "e", "l", " ", "a'", "r", "e", "a", " ", "c", "o", "m", "u'", "n", ".">>,
     <<"A", "l", "e", "r", "t", "a", ":", " ", "p", "o", "s", "i", "b", "l", "e", " ", "{", "k", "w", "}", " ", "e", "n", " ", "e", "l", " ", "s", "e", "c", "t", "o", "r", ".">> >>

\* self.priority_map.get(category, 'Media')
priority_get(category) ==
  IF category \in DOMAIN priority_map THEN priority_map[category]
  ELSE <<"M", "e", "d", "i", "a">>

\* The keywords the trained model is built from: the vocabulary is cut down to
\* these before training, so that every tree the fit can produce is enumerated.
\* 'alarma incendio' contains 'incendio'; 'robo' and 'incendio' share the
\* priority 'Alta'; four categories are left without any keyword.
ModelKeywords ==
  { <<"f", "u", "g", "a">>,
    <<"i", "n", "c", "e", "n", "d", "i", "o">>,
    <<"a", "l", "a", "r", "m", "a", " ", "i", "n", "c", "e", "n", "d", "i", "o">>,
    <<"r", "o", "b", "o">>,
    <<"r", "u", "i", "d", "o">> }

Restrict(ck) ==
  [i \in 1..Len(ck) |->
     <<ck[i][1], SelectSeq(ck[i][2], LAMBDA kw : kw \in ModelKeywords)>>]

\* ---------------------------------------------------------------- dataset

\* {kw for kws in category_keywords.values() for kw in kws}
AllKeywords(ck) ==
  UNION {Range(ck[i][2]) : i \in 1..Len(ck)}

\* self.features = sorted({...})
Features(ck) ==
  sorted(AllKeywords(ck))

\* The rows one category contributes: for kw in kws: for tmpl in templates.
CategoryRows(category, kws) ==
  [n \in 1..(Len(kws) * Len(templates)) |->
     LET k == ((n - 1) \div Len(templates)) + 1
         t == ((n - 1) % Len(templates)) + 1
     IN  [ kw       |-> kws[k],
           desc     |-> format(templates[t], kws[k]),
           category |-> category,
           prio     |-> priority_get(category) ]]

\* for category, kws in self.category_keywords.items(): ... (all rows, in order)
RECURSIVE CorpusFrom(_, _)
CorpusFrom(ck, i) ==
  IF i > Len(ck) THEN <<>>
  ELSE CategoryRows(ck[i][1], ck[i][2]) \o CorpusFrom(ck, i + 1)

Corpus(ck) ==
  CorpusFrom(ck, 1)

\* The vector without .lower() on the text.
Vectorize_nolower(description) ==
  [i \in 1..Len(features) |-> IF Contains(features[i], description) THEN 1 ELSE 0]

\* vec = [1 if kw in description.lower() else 0 for kw in self.features]
Vectorize(description) ==
  LET text == lower(description)
  IN  [i \in 1..Len(features) |-> IF Contains(features[i], text) THEN 1 ELSE 0]

\* --------------------------------------------------------------- training

\* What a call returned, or the exception it raised.
Ok(v) ==
  [exc |-> "none", val |-> v]

Raise(e) ==
  [exc |-> e, val |-> <<>>]

\* LabelEncoder.fit: classes_ is the sorted array of the distinct labels.
le_fit(y) ==
  sorted(Range(y))

\* LabelEncoder.transform on one label: its position in classes_.
le_transform(classes, label) ==
  CHOOSE k \in 1..Len(classes) : classes[k] = label

\* The index taken as one past the position it was given at fit time.
inverse_transform_shifted(classes, idx) ==
  IF idx + 1 \in 1..Len(classes) THEN Ok(classes[idx + 1]) ELSE Raise("ValueError")

\* LabelEncoder.inverse_transform on one index; an index outside classes_ raises.
inverse_transform(classes, idx) ==
  IF idx \in 1..Len(classes) THEN Ok(classes[idx]) ELSE Raise("ValueError")

\* y = le.fit_transform(labels), given the fitted classes_
Encode(classes, labels) ==
  [i \in 1..Len(labels) |-> le_transform(classes, labels[i])]

\* The value of a tree node: how many of its samples S fall in each class.
ClassCounts(S, y, n_classes) ==
  [k \in 1..n_classes |-> Cardinality({i \in S : y[i] = k})]

RECURSIVE SumSq(_, _)
SumSq(counts, k) ==
  IF k = 0 THEN 0 ELSE counts[k] * counts[k] + SumSq(counts, k - 1)

\* Gini's proxy improvement of splitting S on feature f at 0.5, up to a term that
\* is the same for every f: sum(c_left^2)/n_left + sum(c_right^2)/n_right, kept as
\* a fraction.
Proxy(S, Xs, y, n_classes, f) ==
  LET L  == {i \in S : Xs[i][f] = 0}
      R  == S \ L
      sl == SumSq(ClassCounts(L, y, n_classes), n_classes)
      sr == SumSq(ClassCounts(R, y, n_classes), n_classes)
  IN  [num |-> sl * Cardinality(R) + sr * Cardinality(L),
       den |-> Cardinality(L) * Cardinality(R)]

\* The tree grown with max_depth=1: one split, then leaves.
BuildTrees_stump(S, Xs, y, n_classes) ==
  LET value == ClassCounts(S, y, n_classes)
      cands == {f \in 1..Len(Xs[1]) : \E i, j \in S : Xs[i][f] # Xs[j][f]}
      best  == {f \in cands : \A g \in cands :
                  LET p == Proxy(S, Xs, y, n_classes, f)
                      q == Proxy(S, Xs, y, n_classes, g)
                  IN  p.num * q.den >= q.num * p.den}
  IN  IF cands = {} THEN {<<value>>}
      ELSE { << f,
                <<ClassCounts({i \in S : Xs[i][f] = 0}, y, n_classes)>>,
                <<ClassCounts({i \in S : Xs[i][f] = 1}, y, n_classes)>> >>
             : f \in best }

\* DecisionTreeClassifier() grown on the samples S, with the defaults (gini, best
\* splitter, no depth limit, min_samples_split 2, random_state None): a node is a
\* leaf <<value>> when it is pure, has fewer than 2 samples or no feature varies
\* in it; otherwise it is <<feature, left, right>> for a feature of the greatest
\* improvement.  The splitter visits the features in a random order and keeps
\* the first of the best ones, so every best feature is a possible outcome.
RECURSIVE BuildTrees(_, _, _, _)
BuildTrees(S, Xs, y, n_classes) ==
  LET value == ClassCounts(S, y, n_classes)
      pure  == Cardinality({k \in 1..n_classes : value[k] > 0}) <= 1
      cands == {f \in 1..Len(Xs[1]) : \E i, j \in S : Xs[i][f] # Xs[j][f]}
      best  == {f \in cands : \A g \in cands :
                  LET p == Proxy(S, Xs, y, n_classes, f)
                      q == Proxy(S, Xs, y, n_classes, g)
                  IN  p.num * q.den >= q.num * p.den}
  IN  IF pure \/ Cardinality(S) < 2 \/ cands = {} THEN {<<value>>}
      ELSE UNION {
             { <<f, l, r>> :
                 l \in BuildTrees({i \in S : Xs[i][f] = 0}, Xs, y, n_classes),
                 r \in BuildTrees({i \in S : Xs[i][f] = 1}, Xs, y, n_classes) }
             : f \in best }

\* clf = DecisionTreeClassifier(); clf.fit(X, y): the classifiers it can yield.
fit(Xs, y, n_classes) ==
  { [n_features_in |-> Len(Xs[1]), tree |-> t] :
      t \in BuildTrees(1..Len(Xs), Xs, y, n_classes) }

\* np.argmax of a leaf's value: the first class with the greatest count.
argmax(value) ==
  CHOOSE k \in 1..Len(value) :
    /\ \A j \in 1..Len(value) : value[j] <= value[k]
    /\ \A j \in 1..(k - 1) : value[j] < value[k]

\* The leaf a vector falls in: left when x[feature] <= 0.5, else right.
RECURSIVE apply(_, _)
apply(t, v) ==
  IF Len(t) = 1 THEN t[1]
  ELSE IF v[t[1]] = 0 THEN apply(t[2], v) ELSE apply(t[3], v)

\* clf.predict([vec])[0]; a vector of another length than the training rows raises.
predict(clf, v) ==
  IF Len(v) # clf.n_features_in THEN Raise("ValueError")
  ELSE Ok(argmax(apply(clf.tree, v)))

\* A classifier before fit.
Unfitted ==
  [n_features_in |-> 0, tree |-> << <<>> >>]

\* -------------------------------------------------------------- inference

\* classify_ticket(self, description)
classify_ticket(description) ==
  LET idx == predict(clf_cat, Vectorize(description))
  IN  IF idx.exc # "none" THEN idx ELSE inverse_transform(le_cat, idx.val)

\* The priority looked up from the category, as the keyword matcher does.
prioritize_ticket_lookup(category, description) ==
  Ok(priority_get(category))

\* prioritize_ticket(self, category, description)
prioritize_ticket(category, description) ==
  LET idx == predict(clf_prio, Vectorize(description))
  IN  IF idx.exc # "none" THEN idx ELSE inverse_transform(le_prio, idx.val)

\* ------------------------------------------------------ tickets and store

\* A ticket is a dict: its <<key, value>> pairs in insertion order.
dict_keys(d) ==
  [i \in 1..Len(d) |-> d[i][1]]

\* d.get(key, default)
dict_get(d, key, default) ==
  IF \E i \in 1..Len(d) : d[i][1] = key
  THEN d[CHOOSE i \in 1..Len(d) : d[i][1] = key][2]
  ELSE default

\* The CSV file: missing, or a header line and the rows under it (an empty file
\* has neither).
Absent ==
  [exists |-> FALSE, header |-> <<>>, rows |-> <<>>]

\* list(csv.DictReader(f)): one dict per row, keyed by the header.  The file is
\* a table: its column names differ and every row has a value under each.
DictReader(st) ==
  [r \in 1..Len(st.rows) |->
     [j \in 1..Len(st.header) |-> <<st.header[j], st.rows[r][j]>>]]

\* The file opened in a mode that creates it when it is missing.
cargar_tickets_creating(st) ==
  IF ~st.exists
  THEN [tickets |-> <<>>, store |-> [exists |-> TRUE, header |-> <<>>, rows |-> <<>>],
        ret |-> Ok(<<>>)]
  ELSE [tickets |-> DictReader(st), store |-> st, ret |-> Ok(<<>>)]

\* cargar_tickets: self.tickets and the file after the call, and what it raised;
\* a missing file gives [] (the except branch).
cargar_tickets(st) ==
  IF ~st.exists
  THEN [tickets |-> <<>>, store |-> st, ret |-> Ok(<<>>)]
  ELSE [tickets |-> DictReader(st), store |-> st, ret |-> Ok(<<>>)]

\* for key in ticket.keys(): if key not in all_fields: all_fields.append(key)
RECURSIVE AddKeys(_, _)
AddKeys(all_fields, keys) ==
  IF keys = <<>> THEN all_fields
  ELSE AddKeys(IF Head(keys) \in Range(all_fields) THEN all_fields
               ELSE Append(all_fields, Head(keys)),
               Tail(keys))

RECURSIVE AllFields(_, _)
AllFields(ts, all_fields) ==
  IF ts = <<>> THEN all_fields
  ELSE AllFields(Tail(ts), AddKeys(all_fields, dict_keys(Head(ts))))

\* The rows written for the tickets under the header all_fields.
Rows(ts, all_fields) ==
  [i \in 1..Len(ts) |->
     [j \in 1..Len(all_fields) |-> dict_get(ts[i], all_fields[j], <<>>)]]

\* The file opened in append mode: the rows are added under what is there.
guardar_tickets_append(ts, st) ==
  IF ts = <<>> THEN st
  ELSE LET all_fields == AllFields(ts, <<>>)
       IN  [ exists |-> TRUE,
             header |-> IF st.header # <<>> THEN st.header ELSE all_fields,
             rows   |-> st.rows \o Rows(ts, all_fields) ]

\* The file written also when there is no ticket.
guardar_tickets_always(ts, st) ==
  LET all_fields == AllFields(ts, <<>>)
  IN  [exists |-> TRUE, header |-> all_fields, rows |-> Rows(ts, all_fields)]

\* guardar_tickets: the file after the call, given the one before it.
guardar_tickets(ts, st) ==
  IF ts = <<>> THEN st
  ELSE LET all_fields == AllFields(ts, <<>>)
       IN  [ exists |-> TRUE,
             header |-> all_fields,
             rows   |-> Rows(ts, all_fields) ]

\* The ticket dict built by guardar().
NewTicket(nombre, categoria, prioridad, descripcion, fecha) ==
  << <<"nombre", nombre>>,
     <<"categoria", categoria>>,
     <<"prioridad", prioridad>>,
     <<"descripcion", descripcion>>,
     <<"fecha", fecha>>,
     <<"estado", <<"P", "e", "n", "d", "i", "e", "n", "t", "e">>>> >>

\* cols of ver_historial
cols ==
  <<"nombre", "categoria", "prioridad", "descripcion", "fecha", "estado">>

\* stats[t[key]] = stats.get(t[key], 0) + 1 over the tickets, as <<value, count>>
\* pairs in first-seen order.
RECURSIVE Tally(_, _, _)
Tally(ts, key, stats) ==
  IF ts = <<>> THEN stats
  ELSE LET v == dict_get(Head(ts), key, <<>>)
       IN  Tally(Tail(ts), key,
                 IF \E i \in 1..Len(stats) : stats[i][1] = v
                 THEN [i \in 1..Len(stats) |->
                         IF stats[i][1] = v THEN <<v, stats[i][2] + 1>> ELSE stats[i]]
                 ELSE Append(stats, <<v, 1>>))

\* ----------------------------------------------------------------- inputs

\* What the store may hold when the program starts: no file, an empty file, a
\* header alone, one ticket written by this program, one record of an older
\* layout with fewer columns.
InitialStores ==
  { Absent,
    [exists |-> TRUE, header |-> <<>>, rows |-> <<>>],
    [exists |-> TRUE, header |-> cols, rows |-> <<>>],
    [exists |-> TRUE, header |-> cols,
     rows |-> << << <<"L", "u", "i", "s">>,
                    <<"a", "g", "u", "a">>,
                    <<"M", "e", "d", "i", "a">>,
                    <<"f", "u", "g", "a", " ", "e", "n", " ", "e", "l", " ", "p", "a", "t", "i", "o">>,
                    <<"2", "0", "2", "5", "-", "0", "2", "-", "2", "7", " ", "0", "9", ":", "1", "5", ":", "0", "0">>,
                    <<"P", "e", "n", "d", "i", "e", "n", "t", "e">> >> >>],
    [exists |-> TRUE, header |-> <<"nombre", "descripcion", "estado">>,
     rows |-> << << <<"E", "v", "a">>,
                    <<"p", "e", "r", "r", "o", " ", "s", "u", "e", "l", "t", "o">>,
                    <<"C", "e", "r", "r", "a", "d", "o">> >> >>] }

\* nombre_entry.get()
NameInputs ==
  { <<" ", "A", "n", "a", " ">>, <<" ">> }

\* desc_text.get('1.0', 'end'): what was typed, and the newline Tk appends.
DescriptionInputs ==
  { <<"H", "a", "y", " ", "u", "n", "a", " ", "F", "U", "G", "A", "\n">>,
    <<"r", "u", "i", "d", "o", "s", "o", " ", "r", "o", "b", "o", "\n">>,
    <<" ", "\n">> }

\* datetime.now().strftime('%Y-%m-%d %H:%M:%S')
Timestamps ==
  { <<"2", "0", "2", "5", "-", "0", "3", "-", "0", "1", " ", "1", "0", ":", "0", "0", ":", "0", "0">>,
    <<"2", "0", "2", "5", "-", "0", "3", "-", "0", "2", " ", "1", "8", ":", "3", "0", ":", "0", "0">> }

\* Texts handed to classify_ticket and prioritize_ticket between the other
\* operations of a session.
SessionTexts ==
  { <<>>,
    <<"H", "a", "y", " ", "u", "n", "a", " ", "F", "U", "G", "A">>,
    <<"r", "u", "i", "d", "o", "s", "o", " ", "r", "o", "b", "o">> }

\* Texts handed to them when only they are called: the empty text, upper and
\* mixed case, a keyword inside a longer word, a broken phrase, several
\* keywords at once, no keyword at all, and every sentence of the corpus.
QueryTexts ==
  { <<>>,
    <<"H", "a", "y", " ", "u", "n", "a", " ", "F", "U", "G", "A">>,
    <<"r", "u", "i", "d", "o", "s", "o", " ", "r", "o", "b", "o">>,
    <<"A", "L", "A", "R", "M", "A", " ", "I", "N", "C", "E", "N", "D", "I", "O">>,
    <<"a", "l", "a", "r", "m", "a", " ", " ", "i", "n", "c", "e", "n", "d", "i", "o">>,
    <<"t", "o", "d", "o", " ", "t", "r", "a", "n", "q", "u", "i", "l", "o">>,
    <<"f", "u", "g", "a", ",", " ", "r", "u", "i", "d", "o", " ", "y", " ", "R", "O", "B", "O">> }
  \cup Range(descriptions)

\* Values passed as prioritize_ticket's category argument.
CategoryArgs ==
  { <<"a", "g", "u", "a">>,
    <<"s", "e", "g", "u", "r", "i", "d", "a", "d">>,
    <<"r", "u", "i", "d", "o">>,
    <<"o", "t", "r", "o">> }

NoArg ==
  [nombre |-> <<>>, category |-> <<>>, description |-> <<>>]

\* ------------------------------------------------------------ the program

\* TicketManager.__init__: the state once the constructor has returned, with
\* the vocabulary cut down to ModelKeywords.
Init ==
  /\ category_keywords = Restrict(category_keywords_literal)
  /\ features = Features(category_keywords)
  /\ LET corpus == Corpus(category_keywords)
     IN  /\ descriptions = [i \in 1..Len(corpus) |-> corpus[i].desc]
         /\ y_cat = [i \in 1..Len(corpus) |-> corpus[i].category]
         /\ y_prio = [i \in 1..Len(corpus) |-> corpus[i].prio]
  /\ X = [i \in 1..Len(descriptions) |-> Vectorize(descriptions[i])]
  /\ le_cat = le_fit(y_cat)
  /\ clf_cat \in fit(X, Encode(le_cat, y_cat), Len(le_cat))
  /\ le_prio = le_fit(y_prio)
  /\ clf_prio \in fit(X, Encode(le_prio, y_prio), Len(le_prio))
  /\ store \in InitialStores
  /\ tickets = cargar_tickets(store).tickets
  /\ op = "__init__"
  /\ arg = NoArg
  /\ vec = <<>>
  /\ ret = Ok(<<>>)

\* classify_ticket called on one of the texts.
Classify(texts) ==
  \E description \in texts :
    /\ op' = "classify_ticket"
    /\ arg' = [nombre |-> <<>>, category |-> <<>>, description |-> description]
    /\ vec' = Vectorize(description)
    /\ ret' = classify_ticket(description)
    /\ UNCHANGED <<model_vars, tickets, store>>

\* prioritize_ticket called on a category and one of the texts.
Prioritize(texts) ==
  \E category \in CategoryArgs, description \in texts :
    /\ op' = "prioritize_ticket"
    /\ arg' = [nombre |-> <<>>, category |-> category, description |-> description]
    /\ vec' = Vectorize(description)
    /\ ret' = prioritize_ticket(category, description)
    /\ UNCHANGED <<model_vars, tickets, store>>

ClassifyTicket ==
  Classify(SessionTexts)

PrioritizeTicket ==
  Prioritize(SessionTexts)

\* guardar() testing the fields as typed, without .strip().
guardar_nostrip(nombre_in, desc_in, fecha) ==
  LET categoria == classify_ticket(desc_in)
      prioridad == prioritize_ticket(categoria.val, desc_in)
      ts        == Append(tickets,
                     NewTicket(nombre_in, categoria.val, prioridad.val, desc_in, fecha))
  IN  IF nombre_in = <<>> \/ desc_in = <<>>
      THEN [tickets |-> tickets, store |-> store, ret |-> Ok("showwarning"),
            vec |-> <<>>]
      ELSE [tickets |-> ts, store |-> guardar_tickets(ts, store),
            ret |-> Ok("showinfo"), vec |-> Vectorize(desc_in)]

\* The tickets and the store after guardar() of crear_ticket has run on what was
\* typed, and what it showed or raised.
guardar(nombre_in, desc_in, fecha) ==
  LET nombre      == strip(nombre_in)
      descripcion == strip(desc_in)
      categoria   == classify_ticket(descripcion)
      prioridad   == prioritize_ticket(categoria.val, descripcion)
      same        == [tickets |-> tickets, store |-> store]
  IN  IF nombre = <<>> \/ descripcion = <<>>
      THEN same @@ [ret |-> Ok("showwarning"), vec |-> <<>>]
      ELSE IF categoria.exc # "none"
      THEN same @@ [ret |-> categoria, vec |-> Vectorize(descripcion)]
      ELSE IF prioridad.exc # "none"
      THEN same @@ [ret |-> prioridad, vec |-> Vectorize(descripcion)]
      ELSE LET ts == Append(tickets,
                       NewTicket(nombre, categoria.val, prioridad.val, descripcion, fecha))
           IN  [ tickets |-> ts,
                 store   |-> guardar_tickets(ts, store),
                 ret     |-> Ok("showinfo"),
                 vec     |-> Vectorize(descripcion) ]

\* The handler fitting the category tree again after it has saved.
Guardar_retrain ==
  \E nombre_in \in NameInputs, desc_in \in DescriptionInputs, fecha \in Timestamps :
    /\ Len(tickets) < MaxTickets
    /\ LET r == guardar(nombre_in, desc_in, fecha)
       IN  /\ tickets' = r.tickets
           /\ store' = r.store
           /\ ret' = r.ret
           /\ vec' = r.vec
    /\ op' = "guardar"
    /\ arg' = [nombre |-> nombre_in, category |-> <<>>, description |-> desc_in]
    /\ clf_cat' \in fit(X, Encode(le_cat, y_cat), Len(le_cat))
    /\ UNCHANGED <<category_keywords, features, descriptions, X, y_cat, y_prio,
                   le_cat, le_prio, clf_prio>>

\* The "Guardar" button of the new-ticket window.
Guardar ==
  \E nombre_in \in NameInputs, desc_in \in DescriptionInputs, fecha \in Timestamps :
    /\ Len(tickets) < MaxTickets
    /\ LET r == guardar(nombre_in, desc_in, fecha)
       IN  /\ tickets' = r.tickets
           /\ store' = r.store
           /\ ret' = r.ret
           /\ vec' = r.vec
    /\ op' = "guardar"
    /\ arg' = [nombre |-> nombre_in, category |-> <<>>, description |-> desc_in]
    /\ UNCHANGED model_vars

\* ver_historial: the rows put in the tree view.
ver_historial ==
  Ok([i \in 1..Len(tickets) |->
        [c \in 1..Len(cols) |-> dict_get(tickets[i], cols[c], <<>>)]])

VerHistorial ==
  /\ op' = "ver_historial"
  /\ arg' = NoArg
  /\ vec' = <<>>
  /\ ret' = ver_historial
  /\ UNCHANGED <<model_vars, tickets, store>>

\* generar_reporte: a warning without tickets, KeyError on a ticket that has no
\* 'categoria' or 'prioridad', else the total and the two tallies.
generar_reporte ==
  IF Len(tickets) = 0 THEN Ok("showwarning")
  ELSE IF \E i \in 1..Len(tickets) :
            {"categoria", "prioridad"} \ Range(dict_keys(tickets[i])) # {}
  THEN Raise("KeyError")
  ELSE Ok(<<Len(tickets), Tally(tickets, "categoria", <<>>),
            Tally(tickets, "prioridad", <<>>)>>)

GenerarReporte ==
  /\ op' = "generar_reporte"
  /\ arg' = NoArg
  /\ vec' = <<>>
  /\ ret' = generar_reporte
  /\ UNCHANGED <<model_vars, tickets, store>>

\* cargar_tickets called again, as a user of the class may.
CargarTickets ==
  /\ LET r == cargar_tickets(store)
     IN  /\ tickets' = r.tickets
         /\ store' = r.store
         /\ ret' = r.ret
  /\ op' = "cargar_tickets"
  /\ arg' = NoArg
  /\ vec' = <<>>
  /\ UNCHANGED model_vars

\* guardar_tickets called on its own.
GuardarTickets ==
  /\ store' = guardar_tickets(tickets, store)
  /\ op' = "guardar_tickets"
  /\ arg' = NoArg
  /\ vec' = <<>>
  /\ ret' = Ok(<<>>)
  /\ UNCHANGED <<model_vars, tickets>>

Next ==
  \/ ClassifyTicket
  \/ PrioritizeTicket
  \/ Guardar
  \/ VerHistorial
  \/ GenerarReporte
  \/ CargarTickets
  \/ GuardarTickets

Spec ==
  Init /\ [][Next]_vars

\* ------------------------------------------------- inference on its own

\* The two predictors called on QueryTexts, from the start with no store.
InitInference ==
  Init /\ store = Absent

ClassifyQuery ==
  Classify(QueryTexts)

PrioritizeQuery ==
  Prioritize(QueryTexts)

NextInference ==
  \/ ClassifyQuery
  \/ PrioritizeQuery

SpecInference ==
  InitInference /\ [][NextInference]_vars

\* ------------------------------------------- _prepare_dataset, row by row

\* _prepare_dataset on the whole vocabulary: the state after line 54, then one
\* step per row of the corpus and one per row of X.
InitPrepare ==
  /\ category_keywords = category_keywords_literal
  /\ features = Features(category_keywords)
  /\ descriptions = <<>>
  /\ y_cat = <<>>
  /\ y_prio = <<>>
  /\ X = <<>>
  /\ le_cat = <<>>
  /\ clf_cat = Unfitted
  /\ le_prio = <<>>
  /\ clf_prio = Unfitted
  /\ tickets = <<>>
  /\ store = Absent
  /\ op = "_prepare_dataset"
  /\ arg = NoArg
  /\ vec = <<>>
  /\ ret = Ok(<<>>)

\* The n-th pass through the body of `for tmpl in templates`.
SynthesizeRow ==
  LET corpus == Corpus(category_keywords)
      n      == Len(descriptions) + 1
  IN  /\ n <= Len(corpus)
      /\ descriptions' = Append(descriptions, corpus[n].desc)
      /\ y_cat' = Append(y_cat, corpus[n].category)
      /\ y_prio' = Append(y_prio, corpus[n].prio)
      /\ UNCHANGED <<category_keywords, features, X, le_cat, clf_cat, le_prio,
                     clf_prio, tickets, store, op, arg, vec, ret>>

\* The n-th pass through the body of `for desc in descriptions`.
VectorizeRow ==
  LET n == Len(X) + 1
  IN  /\ Len(descriptions) = Len(Corpus(category_keywords))
      /\ n <= Len(descriptions)
      /\ vec' = Vectorize(descriptions[n])
      /\ X' = Append(X, vec')
      /\ UNCHANGED <<category_keywords, features, descriptions, y_cat, y_prio,
                     le_cat, clf_cat, le_prio, clf_prio, tickets, store, op, arg, ret>>

NextPrepare ==
  \/ SynthesizeRow
  \/ VectorizeRow

SpecPrepare ==
  InitPrepare /\ [][NextPrepare]_vars

\* ----------------------------------------------------------------- claims

\* kw occurs in text: from some position of text on, the characters are kw's.
OccursIn(kw, text) ==
  \E i \in 1..(Len(text) - Len(kw) + 1) :
    \A j \in 0..(Len(kw) - 1) : text[i + j] = kw[j + 1]

\* The category and the keyword of corpus row r: the rows come category by
\* category, and in a category keyword by keyword, one per template.
RECURSIVE RowKeyword(_, _)
RowKeyword(i, r) ==
  LET n == Len(category_keywords[i][2]) * Len(templates)
  IN  IF r <= n
      THEN [ category |-> category_keywords[i][1],
             kw       |-> category_keywords[i][2][((r - 1) \div Len(templates)) + 1] ]
      ELSE RowKeyword(i + 1, r - n)

\* v is the keyword-presence vector of text over the sorted vocabulary.
IsFeatureVector(v, text) ==
  /\ Len(v) = Cardinality(AllKeywords(category_keywords))
  /\ \A i \in 1..Len(v) :
       /\ v[i] \in {0, 1}
       /\ v[i] = 1 <=> OccursIn(features[i], lower(text))

\* C1: the feature index is the distinct keywords of the vocabulary in sorted
\* order, and every vector built (each row of X for its sentence, and the
\* vector of each classify_ticket and prioritize_ticket call for its text) has
\* one slot per keyword, slot i being 1 exactly when keyword i occurs in the
\* lowercased text.
C1_FeatureVector ==
  /\ Range(features) = AllKeywords(category_keywords)
  /\ \A i \in 1..(Len(features) - 1) : StrLess(features[i], features[i + 1])
  /\ Len(X) = Len(descriptions)
  /\ \A r \in 1..Len(X) : IsFeatureVector(X[r], descriptions[r])
  /\ op \in {"classify_ticket", "prioritize_ticket"}
       => IsFeatureVector(vec, arg.description)

\* A call on a text with upper-case letters that sets a slot.
C1_Witness ==
  /\ op = "classify_ticket"
  /\ arg.description # lower(arg.description)
  /\ \E i \in 1..Len(vec) : vec[i] = 1

\* The categories of the vocabulary that have at least one keyword.
LabelSpace ==
  { category_keywords[i][1] :
      i \in {j \in 1..Len(category_keywords) : category_keywords[j][2] # <<>>} }

\* C2: the category encoder's classes are exactly the categories with a keyword,
\* and every classify_ticket call returns, without raising, one of them.
C2_ClassifyTotal ==
  /\ Range(le_cat) = LabelSpace
  /\ op = "classify_ticket" => ret.exc = "none" /\ ret.val \in LabelSpace

\* classify_ticket called on the empty text (an all-zero vector), in a vocabulary
\* where some category has no keyword.
C2_Witness ==
  /\ op = "classify_ticket"
  /\ arg.description = <<>>
  /\ \A i \in 1..Len(vec) : vec[i] = 0
  /\ ret.exc = "none"
  /\ \E i \in 1..Len(category_keywords) : category_keywords[i][1] \notin LabelSpace

\* C3: what a prioritize_ticket call returned is what it returns for the same
\* text with any other category argument, the one classify_ticket predicts
\* included.
C3_CategoryIgnored ==
  op = "prioritize_ticket" =>
    \A c \in CategoryArgs \cup {classify_ticket(arg.description).val} :
      prioritize_ticket(c, arg.description) = ret

\* A call whose result is not the priority the table gives its category argument.
C3_Witness ==
  /\ op = "prioritize_ticket"
  /\ ret.exc = "none"
  /\ ret.val # priority_get(arg.category)

\* Ticket i was made by a submission of this session.
Submitted(ts, i) ==
  dict_get(ts[i], "fecha", <<>>) \in Timestamps

\* The call made last returns the same when repeated now, and the two calls
\* repeated on the description of a submitted ticket return the category and
\* the priority the ticket was given.
Repeatable ==
  /\ op = "classify_ticket" => classify_ticket(arg.description) = ret
  /\ op = "prioritize_ticket" => prioritize_ticket(arg.category, arg.description) = ret
  /\ \A i \in 1..Len(tickets) :
       Submitted(tickets, i) =>
         LET d == dict_get(tickets[i], "descripcion", <<>>)
         IN  /\ classify_ticket(d) = Ok(dict_get(tickets[i], "categoria", <<>>))
             /\ prioritize_ticket(<<>>, d) = Ok(dict_get(tickets[i], "prioridad", <<>>))

\* C4: no step changes the feature index, the two classifiers or the two
\* encoders, and in every state, whatever has run since, a call repeated on the
\* same text returns what it returned before.
C4_Deterministic ==
  /\ []Repeatable
  /\ [][ <<features, le_cat, clf_cat, le_prio, clf_prio>>'
           = <<features, le_cat, clf_cat, le_prio, clf_prio>> ]_vars

\* classify_ticket called once a ticket has been submitted.
C4_Witness ==
  /\ op = "classify_ticket"
  /\ ret.exc = "none"
  /\ \E i \in 1..Len(tickets) : Submitted(tickets, i)

\* The keyword of corpus row r is inside no keyword of another category.
InNoOtherCategory(r) ==
  LET row == RowKeyword(1, r)
  IN  \A i \in 1..Len(category_keywords) :
        category_keywords[i][1] # row.category =>
          \A k \in Range(category_keywords[i][2]) : ~OccursIn(row.kw, k)

\* C5: classify_ticket on the sentence of a corpus row whose keyword is inside no
\* other category's keyword returns the row's category; so did every such call
\* made.
C5_TrainingExact ==
  /\ \A r \in 1..Len(descriptions) :
       InNoOtherCategory(r) => classify_ticket(descriptions[r]) = Ok(y_cat[r])
  /\ op = "classify_ticket" =>
       \A r \in 1..Len(descriptions) :
         descriptions[r] = arg.description /\ InNoOtherCategory(r) =>
           ret = Ok(y_cat[r])

\* classify_ticket called on a sentence of the corpus that holds two keywords.
C5_Witness ==
  /\ op = "classify_ticket"
  /\ \E r \in 1..Len(descriptions) :
       /\ descriptions[r] = arg.description
       /\ InNoOtherCategory(r)
       /\ ret = Ok(y_cat[r])
  /\ Cardinality({i \in 1..Len(vec) : vec[i] = 1}) = 2

\* Row r of X has a single 1, in the slot of the row's keyword.
OnlyOwnSlot(r) ==
  \A i \in 1..Len(features) :
    X[r][i] = 1 <=> features[i] = RowKeyword(1, r).kw

\* The keywords of the categories in cats, the keyword kw left out, that occur
\* in the sentence of row r.
OthersIn(r, cats, kw) ==
  { k \in UNION {Range(category_keywords[i][2]) :
                   i \in {j \in 1..Len(category_keywords) :
                            category_keywords[j][1] \in cats}} :
      k # kw /\ OccursIn(k, lower(descriptions[r])) }

AllCategories ==
  {category_keywords[i][1] : i \in 1..Len(category_keywords)}

\* C6 as claimed: a row of X whose sentence holds no keyword of another category
\* has a single 1, in the slot of its own keyword.
C6_Original ==
  \A r \in 1..Len(X) :
    LET row == RowKeyword(1, r)
    IN  OthersIn(r, AllCategories \ {row.category}, row.kw) = {} => OnlyOwnSlot(r)

\* C6: a row of X whose sentence holds no other keyword, of its own category or
\* of another, has a single 1, in the slot of its own keyword.
C6_OneSlot ==
  \A r \in 1..Len(X) :
    LET row == RowKeyword(1, r)
    IN  OthersIn(r, AllCategories, row.kw) = {} => OnlyOwnSlot(r)

\* X is complete, and a row of a two-word keyword has its single 1.
C6_Witness ==
  /\ Len(X) = Len(descriptions)
  /\ Len(X) = Len(Corpus(category_keywords))
  /\ \E r \in 1..Len(X) :
       /\ " " \in Range(RowKeyword(1, r).kw)
       /\ OthersIn(r, AllCategories, RowKeyword(1, r).kw) = {}
       /\ OnlyOwnSlot(r)

\* The field names present in the tickets.
FieldNames(ts) ==
  UNION {Range(dict_keys(ts[i])) : i \in 1..Len(ts)}

\* The file holds the tickets and nothing else: a header naming each of their
\* fields once, and row i giving ticket i's value under each name, the empty
\* string where the ticket has no such field.
StoreHolds(ts, st) ==
  /\ st.exists
  /\ Range(st.header) = FieldNames(ts)
  /\ Cardinality(Range(st.header)) = Len(st.header)
  /\ Len(st.rows) = Len(ts)
  /\ \A i \in 1..Len(ts) :
       /\ Len(st.rows[i]) = Len(st.header)
       /\ \A j \in 1..Len(st.header) :
            st.rows[i][j] = IF st.header[j] \in Range(dict_keys(ts[i]))
                            THEN dict_get(ts[i], st.header[j], <<>>)
                            ELSE <<>>

\* guardar_tickets has just returned, called on its own or by guardar().
Saved ==
  \/ op = "guardar_tickets"
  \/ op = "guardar" /\ ret.exc = "none" /\ ret.val = "showinfo"

\* C7 as claimed: whenever guardar_tickets has returned, the file holds the
\* in-memory tickets and nothing else, whatever the list.
C7_Original ==
  Saved => StoreHolds(tickets, store)

\* C7: when guardar_tickets returns with a ticket list that is not empty, the
\* file holds the in-memory tickets and nothing else; with an empty list it
\* returns leaving the file, present or not, as it was.
C7_Overwrite ==
  [][ Saved' => IF tickets' = <<>> THEN store' = store
                ELSE StoreHolds(tickets', store') ]_vars

\* A submission saved over a file of the older layout: the header has grown and
\* the older row has empty strings under the new names.
C7_Witness ==
  /\ op = "guardar"
  /\ ret.exc = "none"
  /\ ret.val = "showinfo"
  /\ Len(tickets) = 2
  /\ StoreHolds(tickets, store)
  /\ Len(store.header) > Len(dict_keys(tickets[1]))

\* Two files with the same observable content: both missing, or both present
\* with the same column names and, row by row, the same value under each.
SameContent(a, b) ==
  /\ a.exists = b.exists
  /\ Range(a.header) = Range(b.header)
  /\ Len(a.rows) = Len(b.rows)
  /\ \A r \in 1..Len(a.rows) :
       \A i \in 1..Len(a.header), j \in 1..Len(b.header) :
         a.header[i] = b.header[j] => a.rows[r][i] = b.rows[r][j]

C9_LoadMissing ==
  /\ op = "__init__" /\ ~store.exists => tickets = <<>>
  /\ [][ op' = "cargar_tickets" /\ ~store.exists
           => tickets' = <<>> /\ ~store'.exists /\ ret'.exc = "none" ]_vars

\* cargar_tickets has run with the file missing.
C9_Witness ==
  /\ op = "cargar_tickets"
  /\ ~store.exists
  /\ tickets = <<>>
  /\ ret.exc = "none"

\* s is empty or all whitespace.
Blank(s) ==
  \A i \in 1..Len(s) : s[i] \in Whitespace

\* C10: a submission with a name and a description that are not blank adds one
\* ticket at the end, with status 'Pendiente' and the category and priority
\* the two predictors give its description, and leaves the tickets before it as
\* they were; a submission with a blank field, a history view and a report
\* change neither the ticket list nor the file.
C10_AppendOnly ==
  [][ op' \in {"guardar", "ver_historial", "generar_reporte"} =>
        IF op' = "guardar" /\ ~Blank(arg'.nombre) /\ ~Blank(arg'.description)
        THEN /\ Len(tickets') = Len(tickets) + 1
             /\ SubSeq(tickets', 1, Len(tickets)) = tickets
             /\ LET t == tickets'[Len(tickets')]
                    d == dict_get(t, "descripcion", <<>>)
                IN  /\ dict_get(t, "estado", <<>>)
                         = <<"P", "e", "n", "d", "i", "e", "n", "t", "e">>
                    /\ Ok(dict_get(t, "categoria", <<>>)) = classify_ticket(d)
                    /\ Ok(dict_get(t, "prioridad", <<>>))
                         = prioritize_ticket(dict_get(t, "categoria", <<>>), d)
        ELSE tickets' = tickets /\ store' = store ]_vars

\* A submission accepted after a ticket loaded from the file.
C10_Witness ==
  /\ op = "guardar"
  /\ ret.exc = "none"
  /\ ret.val = "showinfo"
  /\ Len(tickets) = 2
  /\ ~Submitted(tickets, 1)
  /\ Submitted(tickets, 2)
====
